---- MODULE Spec2Model ----
(***************************************************************************)
(* A model of the BibClassify ontology reader                              *)
(* (src/modules/bibclassify/lib/bibclassify_ontology_reader.py).           *)
(*                                                                         *)
(* Python strings are modelled as sequences of one-character strings, so   *)
(* that indexing, slicing, find() and concatenation are computed and not   *)
(* assumed.                                                                *)
(***************************************************************************)
EXTENDS Integers, Sequences, FiniteSets, TLC

VARIABLES
    word,       \* the argument handed to _convert_word
    out,        \* what _convert_word returned for it (NotCalled before the call)
    csubject,   \* the subject a CompositeKeyword is constructed for
    clabels,    \* what store.objects(subject, compositeOf) yields, in order
    compositeof, \* the CompositeKeyword's component list (NotCalled before)
    store,      \* the triples of the graph check_taxonomy parses
    report,     \* what check_taxonomy computed and printed (NoReport before)
    fs,         \* the files: the taxonomy sources and the cache files
    dir_ok,     \* bibclassify's cache directory can be made, read and written
    clock,      \* the time, which a written file gets as modification time
    _cache_location, \* the module global of that name
    result,     \* the last step's call of get_regular_expressions, if it was one
    persisted,  \* the source and the maps of the compilation that has just written a cache
    source,     \* the content of the file _build_cache compiles
    keywords    \* what _build_cache returned for it (NotCompiled before the call)

vars == <<word, out, csubject, clabels, compositeof, store, report,
          fs, dir_ok, clock, _cache_location, result, persisted,
          source, keywords>>

(***************************************************************************)
(* Characters.                                                             *)
(***************************************************************************)
Lowers == <<"a","b","c","d","e","f","g","h","i","j","k","l","m",
            "n","o","p","q","r","s","t","u","v","w","x","y","z">>
Uppers == <<"A","B","C","D","E","F","G","H","I","J","K","L","M",
            "N","O","P","Q","R","S","T","U","V","W","X","Y","Z">>
Digits == {"0","1","2","3","4","5","6","7","8","9"}

Range(s) == {s[i] : i \in DOMAIN s}
LowerSet == Range(Lowers)
UpperSet == Range(Uppers)

\* str.islower / str.isupper / str.isalpha / str.isdigit of one character
islowerc(c) == c \in LowerSet
isupperc(c) == c \in UpperSet
isalpha(c) == islowerc(c) \/ isupperc(c)
isdigitc(c) == c \in Digits

IndexIn(s, c) == CHOOSE i \in DOMAIN s : s[i] = c

\* str.swapcase, str.lower of one character
swapcase(c) ==
    IF islowerc(c) THEN Uppers[IndexIn(Lowers, c)]
    ELSE IF isupperc(c) THEN Lowers[IndexIn(Uppers, c)]
    ELSE c
lowerc(c) == IF isupperc(c) THEN swapcase(c) ELSE c
lower(s) == [i \in DOMAIN s |-> lowerc(s[i])]

\* s[n:] of Python, n >= 0
Slice(s, n) == SubSeq(s, n + 1, Len(s))
\* s.startswith(p), s.endswith(p)
startswith(s, p) == Len(p) <= Len(s) /\ SubSeq(s, 1, Len(p)) = p
endswith(s, p) == Len(p) <= Len(s) /\ SubSeq(s, Len(s) - Len(p) + 1, Len(s)) = p

\* str.isupper: every cased character is uppercase and there is one
isupper(s) ==
    /\ \E i \in DOMAIN s : isupperc(s[i])
    /\ \A i \in DOMAIN s : ~islowerc(s[i])

\* str.istitle: uppercase characters follow only uncased ones, lowercase
\* characters follow only cased ones, and there is a cased character
istitle(s) ==
    /\ \E i \in DOMAIN s : isalpha(s[i])
    /\ \A i \in DOMAIN s :
          LET previous_is_cased == i > 1 /\ isalpha(s[i - 1])
          IN  /\ isupperc(s[i]) => ~previous_is_cased
              /\ islowerc(s[i]) => previous_is_cased

\* _contains_digit.search(word)
_contains_digit(s) == \E i \in DOMAIN s : isdigitc(s[i])

\* _starts_with_non = (?i)^non[a-z], _starts_with_anti = (?i)^anti[a-z]
_starts_with_non(s) ==
    /\ Len(s) >= 4
    /\ lower(SubSeq(s, 1, 3)) = <<"n","o","n">>
    /\ isalpha(s[4])
_starts_with_anti(s) ==
    /\ Len(s) >= 5
    /\ lower(SubSeq(s, 1, 4)) = <<"a","n","t","i">>
    /\ isalpha(s[5])

(***************************************************************************)
(* The grammatical configuration (bibclassify_config).  The tables are     *)
(* fixed data of the program; the entries below are the ones the           *)
(* specification names or needs one representative of.                     *)
(***************************************************************************)
CFG_BIBCLASSIFY_INVARIABLE_WORDS == {<<"a","n","y">>, <<"n","o","n">>}

CFG_BIBCLASSIFY_EXCEPTIONS ==
    (<<"a","x","i","s">> :> <<"a","x","[","e","i","]","s">>)

\* "leave unchanged" expressions: [io]s$ and ous$
CFG_BIBCLASSIFY_UNCHANGE_REGULAR_EXPRESSIONS == <<"[io]s$", "ous$">>

unchange_search(regex, s) ==
    IF regex = "[io]s$"
    THEN endswith(s, <<"i","s">>) \/ endswith(s, <<"o","s">>)
    ELSE endswith(s, <<"o","u","s">>)

\* stemming rules, in order: ([^aeiou])y$ -> \1(y|ies) and x$ -> x(es)?
CFG_BIBCLASSIFY_GENERAL_REGULAR_EXPRESSIONS == <<"y$", "x$">>

Vowels == {"a","e","i","o","u"}

\* regex.sub(replacement, word) of a stemming rule
general_sub(regex, s) ==
    IF regex = "y$"
    THEN IF Len(s) >= 2 /\ s[Len(s)] = "y" /\ s[Len(s) - 1] \notin Vowels
         THEN SubSeq(s, 1, Len(s) - 1) \o <<"(","y","|","i","e","s",")">>
         ELSE s
    ELSE IF Len(s) >= 1 /\ s[Len(s)] = "x"
         THEN s \o <<"(","e","s",")","?">>
         ELSE s

\* the word-boundary template applied to every pattern
CFG_BIBCLASSIFY_WORD_WRAP(pattern) == <<"[^\\w-]">> \o pattern \o <<"[^\\w-]">>

(***************************************************************************)
(* The pattern compiler.                                                   *)
(***************************************************************************)
IndexError == <<"!IndexError">>

\* _capitalize_first_letter with the two cases exchanged: '[Xx]' for an
\* uppercase first letter
_capitalize_first_letter_Xx(w) ==
    IF w = <<>> THEN IndexError
    ELSE IF isalpha(w[1])
         THEN <<"[", w[1], swapcase(w[1]), "]">> \o Slice(w, 1)
         ELSE w

_capitalize_first_letter(w) ==
    IF w = <<>> THEN IndexError
    ELSE IF isalpha(w[1])
         THEN IF isupperc(w[1])
              THEN <<"[", swapcase(w[1]), w[1], "]">> \o Slice(w, 1)
              ELSE <<"[", w[1], swapcase(w[1]), "]">> \o Slice(w, 1)
         ELSE w

\* the part of _convert_word after the prefix rewriting (lines 305-326):
\* invariable words, exceptions, unchanged expressions, stemming, default
_convert_word_tail(w) ==
    IF w \in CFG_BIBCLASSIFY_INVARIABLE_WORDS
    THEN _capitalize_first_letter(w)
    ELSE IF w \in DOMAIN CFG_BIBCLASSIFY_EXCEPTIONS
    THEN _capitalize_first_letter(CFG_BIBCLASSIFY_EXCEPTIONS[w])
    ELSE IF \E i \in DOMAIN CFG_BIBCLASSIFY_UNCHANGE_REGULAR_EXPRESSIONS :
               unchange_search(CFG_BIBCLASSIFY_UNCHANGE_REGULAR_EXPRESSIONS[i], w)
    THEN _capitalize_first_letter(w)
    ELSE LET rules == CFG_BIBCLASSIFY_GENERAL_REGULAR_EXPRESSIONS
             hits == {i \in DOMAIN rules : general_sub(rules[i], w) # w}
         IN  IF hits # {}
             THEN LET first == CHOOSE i \in hits : \A j \in hits : i <= j
                  IN  _capitalize_first_letter(general_sub(rules[first], w))
             ELSE _capitalize_first_letter(w \o <<"s","?">>)

RECURSIVE _convert_word(_)
_convert_word(w) ==
    IF isupper(w) THEN w \o <<"s","?">>
    ELSE IF istitle(w) THEN w \o <<"(","'","?","s",")","?">>
    ELSE IF _contains_digit(w) THEN w
    ELSE \* `out` is still None here: the prefix branches assign `word`, and
         \* the function goes on with the rewritten word
         LET rewritten ==
                 IF _starts_with_non(w)
                 THEN <<"n","o","n","-","?">> \o
                      _capitalize_first_letter(_convert_word(Slice(w, 3)))
                 ELSE IF _starts_with_anti(w)
                 THEN <<"a","n","t","i","-","?">> \o
                      _capitalize_first_letter(_convert_word(Slice(w, 4)))
                 ELSE w
         IN  _convert_word_tail(rewritten)


(***************************************************************************)
(* The label-level compiler.                                               *)
(***************************************************************************)
\* \w of the re module
iswordc(c) == isalpha(c) \/ isdigitc(c) \/ c = "_"

\* str.isdigit
isdigit(s) == s # <<>> /\ \A i \in DOMAIN s : isdigitc(s[i])

\* the longest prefix of s whose characters are all / all not word characters
RECURSIVE take_while(_, _)
take_while(s, wordp) ==
    IF s = <<>> \/ iswordc(s[1]) # wordp THEN <<>>
    ELSE <<s[1]>> \o take_while(Tail(s), wordp)

\* _split_by_punctuation.split(label) with _split_by_punctuation = (\W+):
\* word, separator, word, ..., word; the first and last word may be empty
RECURSIVE _split_by_punctuation(_)
_split_by_punctuation(s) ==
    LET w == take_while(s, TRUE)
        rest == Slice(s, Len(w))
    IN  IF rest = <<>> THEN <<w>>
        ELSE LET sep == take_while(rest, FALSE)
             IN  <<w, sep>> \o _split_by_punctuation(Slice(rest, Len(sep)))

\* the conversion tables of punctuation between words and after the last word
CFG_BIBCLASSIFY_SEPARATORS == (<<" ">> :> <<"[", ",", ";", ":", "-", " ", "]", "*">>)
CFG_BIBCLASSIFY_SYMBOLS == (<<"+">> :> <<"(", "?", ":", "\\", "+", ")", "?">>)

\* re.escape: a backslash before every character that is not alphanumeric
RECURSIVE re_escape(_)
re_escape(s) ==
    IF s = <<>> THEN <<>>
    ELSE (IF isalpha(s[1]) \/ isdigitc(s[1]) THEN <<s[1]>> ELSE <<"\\", s[1]>>)
         \o re_escape(Tail(s))

_convert_punctuation(punctuation, conversion_table) ==
    IF punctuation \in DOMAIN conversion_table
    THEN conversion_table[punctuation]
    ELSE re_escape(punctuation)

RECURSIVE join(_)
join(parts) == IF parts = <<>> THEN <<>> ELSE parts[1] \o join(Tail(parts))

_get_regex_pattern(label) ==
    LET parts == _split_by_punctuation(label)
        converted ==
            [index \in DOMAIN parts |->
                IF index % 2 = 1
                THEN \* a word (an even index of the 0-based list)
                     IF isdigit(parts[index]) THEN parts[index]
                     ELSE _convert_word(parts[index])
                ELSE IF parts[index + 1] = <<>>
                     THEN _convert_punctuation(parts[index], CFG_BIBCLASSIFY_SYMBOLS)
                     ELSE _convert_punctuation(parts[index], CFG_BIBCLASSIFY_SEPARATORS)]
    IN  join(converted)

\* _is_regex: string[0] == "/" and string[-1] == "/"
\* (an empty string raises IndexError there; no label of the model is empty)
_is_regex(string) ==
    IF string = <<>> THEN FALSE ELSE string[1] = "/" /\ string[Len(string)] = "/"

(***************************************************************************)
(* Inputs of the word-level checks.                                        *)
(***************************************************************************)
MaxTail == 3

TailAlphabet == {"a","s","x","y","A","1"}

RECURSIVE Tails(_)
Tails(n) ==
    IF n = 0 THEN {<<>>}
    ELSE LET shorter == Tails(n - 1)
         IN  shorter \cup {t \o <<c>> : t \in shorter, c \in TailAlphabet}

Prefixes == {<<>>, <<"n","o","n">>, <<"a","n","t","i">>, <<"N","o","n">>,
             <<"n","O","n">>, <<"N","O","N">>, <<"A","n","t","i">>}

FixedWords ==
    {<<"a","x","i","s">>, <<"n","o","n","a","x","i","s">>,
     <<"a","n","y">>, <<"n","o","n","a","n","y">>, <<"_","x">>,
     <<"n","o","n","a","n","t","i","x">>,
     <<"n","o","n","r","a","d","i","o","a","c","t","i","v","e">>,
     <<"a","n","t","i","p","a","r","t","i","c","l","e">>}

Words == {p \o t : p \in Prefixes, t \in Tails(MaxTail)} \cup FixedWords

NotCalled == <<"!none">>


(***************************************************************************)
(* Word-level properties.                                                  *)
(***************************************************************************)
\* the first three rules of _convert_word return without case folding
EarlyReturn(w) == isupper(w) \/ istitle(w) \/ _contains_digit(w)

PrefixCase(w) ==
    ~EarlyReturn(w) /\ (_starts_with_non(w) \/ _starts_with_anti(w))

\* the prefix fragment followed by the capitalized compiled remainder
PrefixExpected(w) ==
    IF _starts_with_non(w)
    THEN <<"n","o","n","-","?">> \o
         _capitalize_first_letter(_convert_word(Slice(w, 3)))
    ELSE <<"a","n","t","i","-","?">> \o
         _capitalize_first_letter(_convert_word(Slice(w, 4)))

\* C6: for a word with a non/anti prefix that is not all-uppercase, title-case
\* or digit-bearing, the result is the prefix fragment followed by exactly the
\* capitalized result for the remainder, nothing stemmed or appended to the
\* whole (read generously: the first letter of the prefix may be case-folded).
C6_PrefixRule ==
    (out # NotCalled /\ PrefixCase(word)) =>
        out \in {PrefixExpected(word),
                 _capitalize_first_letter(PrefixExpected(word))}

\* a result that begins with the bracket class [xX], lowercase first
BracketFirst(r) ==
    /\ Len(r) >= 4
    /\ r[1] = "["
    /\ islowerc(r[2])
    /\ r[3] = swapcase(r[2])
    /\ r[4] = "]"

\* a result whose first character, if it was alphabetic, has been replaced by
\* the bracket class
Folded(r) ==
    /\ r # <<>>
    /\ ~isalpha(r[1])
    /\ r[1] = "[" => BracketFirst(r)

\* C10 as stated: whichever rule produced it, the result is first-letter
\* case-folded.
C10_FoldedEveryRule == out # NotCalled => Folded(out)

\* C10 amended: the result is first-letter case-folded for every word that is
\* not all-uppercase, not title-case and has no digit.
C10_FoldedUnlessEarly ==
    (out # NotCalled /\ ~EarlyReturn(word)) => Folded(out)

\* C10 witness: a word with an uppercase first letter went through the later
\* rules and came out with the class [xX] of that letter.
C10_Witness ==
    /\ out # NotCalled
    /\ word # <<>>
    /\ ~EarlyReturn(word)
    /\ isupperc(word[1])
    /\ ~_starts_with_non(word) /\ ~_starts_with_anti(word)
    /\ SubSeq(out, 1, 4) = <<"[", swapcase(word[1]), word[1], "]">>

(***************************************************************************)
(* CompositeKeyword.__init__: the order of the components.                 *)
(*                                                                         *)
(* A URI is a sequence of characters in which the namespace is the one     *)
(* element "http:" and the text "Composite." the one element "Composite.". *)
(***************************************************************************)
\* the 0-based index of the last occurrence of sep in s, -1 if none
rfind(s, sep) ==
    LET at == {i \in 1..(Len(s) - Len(sep) + 1) :
                  SubSeq(s, i, i + Len(sep) - 1) = sep}
    IN  IF at = {} THEN -1
        ELSE (CHOOSE i \in at : \A j \in at : j <= i) - 1

\* s.split(sep)[-1]
split_last(s, sep) ==
    IF rfind(s, sep) = -1 THEN s ELSE Slice(s, rfind(s, sep) + Len(sep))

\* s.find(sub): the lowest 0-based index where sub occurs in s, -1 if none
find(s, sub) ==
    LET at == {i \in 1..(Len(s) - Len(sub) + 1) :
                  SubSeq(s, i, i + Len(sub) - 1) = sub}
    IN  IF at = {} THEN -1
        ELSE (CHOOSE i \in at : \A j \in at : i <= j) - 1

\* the order of characters (their code points) Python compares strings by
CharOrder ==
    <<"#", ".", "0","1","2","3","4","5","6","7","8","9">> \o Uppers \o
    <<"_">> \o Lowers
ord(c) == CHOOSE i \in DOMAIN CharOrder : CharOrder[i] = c

\* a < b for Python strings
RECURSIVE str_lt(_, _)
str_lt(a, b) ==
    IF b = <<>> THEN FALSE
    ELSE IF a = <<>> THEN TRUE
    ELSE IF a[1] = b[1] THEN str_lt(Tail(a), Tail(b))
    ELSE ord(a[1]) < ord(b[1])

\* a comparison on the position alone, which leaves ties as they came
position_le(p, q) == p[1] <= q[1]

\* p <= q for the (position, strlabel) tuples list.sort() compares
tuple_le(p, q) ==
    \/ p[1] < q[1]
    \/ p[1] = q[1] /\ (p[2] = q[2] \/ str_lt(p[2], q[2]))

\* insert p into the sorted list s, after the entries that are <= p
RECURSIVE insert_sorted(_, _)
insert_sorted(s, p) ==
    IF s = <<>> THEN <<p>>
    ELSE IF tuple_le(s[1], p) THEN <<s[1]>> \o insert_sorted(Tail(s), p)
    ELSE <<p>> \o s

RECURSIVE insert_by_position(_, _)
insert_by_position(s, p) ==
    IF s = <<>> THEN <<p>>
    ELSE IF position_le(s[1], p) THEN <<s[1]>> \o insert_by_position(Tail(s), p)
    ELSE <<p>> \o s

\* a stable sort on the position alone
RECURSIVE sort_by_position(_)
sort_by_position(s) ==
    IF s = <<>> THEN <<>>
    ELSE insert_by_position(sort_by_position(SubSeq(s, 1, Len(s) - 1)), s[Len(s)])

\* component_positions.sort()
RECURSIVE sort_positions(_)
sort_positions(s) ==
    IF s = <<>> THEN <<>>
    ELSE insert_sorted(sort_positions(SubSeq(s, 1, Len(s) - 1)), s[Len(s)])

small_subject(subject) == split_last(subject, <<"#", "Composite.">>)
component_name(label) == split_last(label, <<"#">>)

\* lines 157-162: the (position, strlabel) pairs, in the order yielded
component_positions(subject, labels) ==
    [i \in DOMAIN labels |->
        <<find(small_subject(subject), component_name(labels[i])),
          component_name(labels[i])>>]

\* lines 164-167
CompositeKeyword_compositeof(subject, labels) ==
    LET sorted == sort_positions(component_positions(subject, labels))
    IN  [i \in DOMAIN sorted |-> sorted[i][2]]

MaxName == 2
MaxComponents == 3

NameAlphabet == {"A", "B"}

RECURSIVE Names(_)
Names(n) ==
    IF n = 0 THEN {<<>>}
    ELSE LET shorter == Names(n - 1)
         IN  shorter \cup {t \o <<c>> : t \in shorter, c \in NameAlphabet}

LocalNames == Names(MaxName) \ {<<>>}

CompositeSubjects ==
    {<<"http:", "#", "Composite.">> \o n : n \in LocalNames} \cup
    {<<"http:", "#">> \o n : n \in LocalNames}

ComponentLabels == {<<"http:", "#">> \o n : n \in LocalNames}

\* the sequences of distinct labels a subject's compositeOf relation can yield
LabelSeqs ==
    UNION {{q \in [1..n -> ComponentLabels] :
               \A i, j \in 1..n : i # j => q[i] # q[j]} : n \in 0..MaxComponents}


\* the position the code gives the i-th yielded label
PositionOf(label) == find(small_subject(csubject), component_name(label))

\* the yielded labels' local names, as a bag
BagOf(s) == [x \in Range(s) |-> Cardinality({i \in DOMAIN s : s[i] = x})]

YieldedNames == [i \in DOMAIN clabels |-> component_name(clabels[i])]

IndexOfName(n) == find(small_subject(csubject), n)

\* C7 as stated: ascending order of the index of occurrence, components with
\* equal index in the order the relation yielded them.
C7_StableByIndex ==
    compositeof # NotCalled =>
        LET stable == sort_by_position(component_positions(csubject, clabels))
        IN  compositeof = [i \in DOMAIN stable |-> stable[i][2]]

\* C7 amended: the component list holds the yielded names, in ascending order
\* of the index of occurrence (-1 when the name does not occur), and names with
\* equal index in ascending string order.
C7_ByIndexThenName ==
    compositeof # NotCalled =>
        /\ BagOf(compositeof) = BagOf(YieldedNames)
        /\ \A i, j \in DOMAIN compositeof :
              i < j =>
                 \/ IndexOfName(compositeof[i]) < IndexOfName(compositeof[j])
                 \/ /\ IndexOfName(compositeof[i]) = IndexOfName(compositeof[j])
                    /\ str_lt(compositeof[i], compositeof[j])

\* C7 witness: two components with the same index were yielded in descending
\* name order and the list has them in ascending name order.
C7_Witness ==
    /\ compositeof # NotCalled
    /\ Len(clabels) >= 2
    /\ \E i, j \in DOMAIN clabels :
          /\ i < j
          /\ PositionOf(clabels[i]) = PositionOf(clabels[j])
          /\ str_lt(component_name(clabels[j]), component_name(clabels[i]))
    /\ \E i \in DOMAIN compositeof : IndexOfName(compositeof[i]) > 0
    /\ small_subject(csubject) # csubject

(***************************************************************************)
(* Names of the SKOS vocabulary and of the concepts of the model.          *)
(***************************************************************************)
\* namespace[p] of rdflib.Namespace("http://www.w3.org/2004/02/skos/core#")
skos(p) == <<"skos:", "#", p>>
SX == <<"http:", "#", "X">>
CX == <<"http:", "#", "Composite.", "X">>
CY == <<"http:", "#", "Composite.", "Y">>
SZ == <<"http:", "#", "Z">>
nostandalone == <<"n","o","s","t","a","n","d","a","l","o","n","e">>
nonstandalone == <<"n","o","n","s","t","a","n","d","a","l","o","n","e">>

(***************************************************************************)
(* check_taxonomy.  The graph is a set of triples <<subject, predicate,    *)
(* object>>; URIs and literals are character sequences as above.           *)
(***************************************************************************)
\* what the model holds for a taxonomy file that does not parse as RDF
NotRdf == {<<"not a RDF file">>}

\* no report yet
NoReport == [called |-> FALSE]

\* str(x).split("#Composite.")[-1].split("#")[-1]
local_name(uri) == split_last(split_last(uri, <<"#", "Composite.">>), <<"#">>)

\* str(predicate).split("#")[-1]
strpredicate(predicate) == split_last(predicate, <<"#">>)

HEPontology == <<"http://cern.ch/thesauri/HEPontology.rdf">>

\* lines 500-502: the subjects check_taxonomy skips
skipped(strsubject) ==
    strsubject = HEPontology \/ strsubject = <<"compositeOf">>

\* store.subjects()
store_subjects(st) == {t[1] : t \in st}

\* the keys of the `subjects` dictionary
subject_names(st) ==
    {local_name(sub) : sub \in store_subjects(st)} \ {n \in {local_name(sub) : sub \in store_subjects(st)} : skipped(n)}

\* the subjects of the graph that share the identifier n
subjects_named(st, n) == {sub \in store_subjects(st) : local_name(sub) = n}

\* The `subjects` dictionary keeps, for each identifier, the predicates of the
\* subject the iteration over the uniq_subjects dictionary visits first; that
\* order is not defined, so any one of the subjects sharing an identifier may
\* be the one kept.
kept_choices(st) ==
    {k \in [subject_names(st) -> store_subjects(st)] :
        \A n \in subject_names(st) : local_name(k[n]) = n}

\* lines 509-510: an identifier met again goes to both_skw_and_ckw
both_skw_and_ckw(st) ==
    {n \in subject_names(st) : Cardinality(subjects_named(st, n)) > 1}

\* subjects[n][p], before the objects are reduced to their local names: one
\* list entry per triple
raw_values(st, kept, n, p) ==
    {t[3] : t \in {x \in st : x[1] = kept[n] /\ strpredicate(x[2]) = <<p>>}}

\* p in subjects[n]
has(st, kept, n, p) == raw_values(st, kept, n, p) # {}

\* len(subjects[n][p]) > 2: a comparison one off
more_than_two(st, kept, n, p) == Cardinality(raw_values(st, kept, n, p)) > 2

\* len(subjects[n][p]) > 1
more_than_one(st, kept, n, p) == Cardinality(raw_values(st, kept, n, p)) > 1

\* the entries of subjects[n][p]
values(st, kept, n, p) == {local_name(o) : o \in raw_values(st, kept, n, p)}

count_char(s, c) == Cardinality({i \in DOMAIN s : s[i] = c})

\* lines 596-615: the (label, expression) entries of a subject and their patterns
stemmed_entries(st, kept, n) ==
    LET labels == IF has(st, kept, n, "compositeOf")
                  THEN {"altLabel", "hiddenLabel"}
                  ELSE {"prefLabel", "altLabel", "hiddenLabel"}
    IN  {<<lbl, expr>> \in labels \X (UNION {values(st, kept, n, l) : l \in labels}) :
            expr \in values(st, kept, n, lbl) /\ ~_is_regex(expr)}

\* lines 537-615: everything the loop over the subjects computes
findings(st, kept) ==
    LET names == subject_names(st)
        H(n, p) == has(st, kept, n, p)
        V(n, p) == values(st, kept, n, p)
        AV(p) == UNION {values(st, kept, m, p) : m \in names}
        AE == UNION {stemmed_entries(st, kept, m) : m \in names}
    IN  [ no_prefLabel |-> {n \in names : ~H(n, "prefLabel")},
          multiple_prefLabels |->
              {n \in names : more_than_one(st, kept, n, "prefLabel")},
          lonely |-> {n \in names : ~H(n, "composite") /\ ~H(n, "compositeOf")},
          both_composites |->
              {n \in names : H(n, "composite") /\ H(n, "compositeOf")},
          multiple_notes |-> {n \in names : more_than_one(st, kept, n, "note")},
          bad_notes |->
              {<<n, v>> \in names \X AV("note") :
                  v \in V(n, "note") /\ v # nostandalone},
          bad_hidden_labels |->
              {<<n, l>> \in names \X AV("hiddenLabel") :
                  /\ l \in V(n, "hiddenLabel")
                  /\ startswith(l, <<"/">>) # endswith(l, <<"/">>)},
          bad_alt_labels |->
              {<<n, l>> \in names \X AV("altLabel") :
                  /\ l \in V(n, "altLabel")
                  /\ (count_char(l, "/") >= 2 \/ count_char(l, ":") >= 1)},
          both_skw_and_ckw |-> both_skw_and_ckw(st),
          composite_problem1 |->
              {<<n, ckw>> \in names \X AV("composite") :
                  ckw \in V(n, "composite") /\ ckw \notin names},
          composite_problem2 |->
              {<<n, ckw>> \in names \X names :
                  /\ ckw \in V(n, "composite")
                  /\ ~H(ckw, "compositeOf")
                  /\ ckw \notin both_skw_and_ckw(st)},
          composite_problem3 |->
              {<<n, ckw>> \in names \X names :
                  /\ ckw \in V(n, "composite")
                  /\ H(ckw, "compositeOf")
                  /\ n \notin V(ckw, "compositeOf")},
          composite_problem4 |->
              {<<skw, n>> \in AV("compositeOf") \X names :
                  skw \in V(n, "compositeOf") /\ skw \notin names},
          composite_problem5 |->
              {<<n, skw>> \in names \X names :
                  /\ skw \in V(n, "compositeOf")
                  /\ ~H(skw, "composite")
                  /\ skw \notin both_skw_and_ckw(st)},
          composite_problem6 |->
              {<<n, skw>> \in names \X names :
                  /\ skw \in V(n, "compositeOf")
                  /\ H(skw, "composite")
                  /\ n \notin V(skw, "composite")},
          stemming_collisions |->
              UNION {{<<n, e, f>> : <<e, f>> \in
                          {x \in stemmed_entries(st, kept, n) \X stemmed_entries(st, kept, n) :
                              /\ x[1] # x[2]
                              /\ _get_regex_pattern(x[1][2]) = _get_regex_pattern(x[2][2])}}
                     : n \in names} ]

\* lines 617-665: the findings printed under "==== ERRORS ===="
error_section(f) ==
    [ no_prefLabel |-> f.no_prefLabel,
      multiple_prefLabels |-> f.multiple_prefLabels,
      both_composites |-> f.both_composites,
      bad_hidden_labels |-> f.bad_hidden_labels,
      bad_alt_labels |-> f.bad_alt_labels,
      both_skw_and_ckw |-> f.both_skw_and_ckw,
      composite_problem1 |-> f.composite_problem1,
      composite_problem2 |-> f.composite_problem2,
      composite_problem3 |-> f.composite_problem3,
      composite_problem4 |-> f.composite_problem4,
      composite_problem5 |-> f.composite_problem5,
      composite_problem6 |-> f.composite_problem6 ]

\* lines 667-679: the findings printed under "==== WARNINGS ===="
warning_section(f) ==
    [ multiple_notes |-> f.multiple_notes,
      bad_notes |-> f.bad_notes,
      stemming_collisions |-> f.stemming_collisions ]

\* check_taxonomy on a graph, with `kept` the subjects kept in `subjects`
check_taxonomy(st, kept) ==
    LET f == findings(st, kept)
    IN  [ called |-> TRUE,
          parsed |-> TRUE,
          kept |-> kept,
          concepts |-> Cardinality(subject_names(st)),
          errors |-> error_section(f),
          warnings |-> warning_section(f),
          exit |-> 0 ]

\* lines 471-477: the taxonomy is not a RDF file
check_taxonomy_not_rdf ==
    [ called |-> TRUE, parsed |-> FALSE, exit |-> 0 ]

(***************************************************************************)
(* The keyword models and _build_cache's compilation of a source.          *)
(*                                                                         *)
(* A compiled pattern is modelled by its pattern source.  A keyword's      *)
(* `regex` list is the values of a dictionary keyed by label; it is        *)
(* modelled by that dictionary.                                            *)
(***************************************************************************)
\* store.objects(subject, namespace[p])
objects(st, sub, p) == {t[3] : t \in {x \in st : x[1] = sub /\ x[2] = skos(p)}}

\* an attribute __init__ never assigned
Unset == <<"!unset">>
\* str(None)
NoneStr == <<"N","o","n","e">>

\* hidden_label[1:-1]
strip_slashes(l) == SubSeq(l, 2, Len(l) - 1)

\* a merge in which the basic labels' patterns go over the hidden labels'
_get_searchable_regex_basic_last(basic, hidden) ==
    [l \in basic \cup hidden |->
        IF l \in basic
        THEN CFG_BIBCLASSIFY_WORD_WRAP(_get_regex_pattern(l))
        ELSE IF _is_regex(l)
        THEN CFG_BIBCLASSIFY_WORD_WRAP(strip_slashes(l))
        ELSE CFG_BIBCLASSIFY_WORD_WRAP(_get_regex_pattern(l))]

_get_searchable_regex(basic, hidden) ==
    LET hidden_regex_dict ==
            [l \in hidden |->
                IF _is_regex(l)
                THEN CFG_BIBCLASSIFY_WORD_WRAP(strip_slashes(l))
                ELSE CFG_BIBCLASSIFY_WORD_WRAP(_get_regex_pattern(l))]
        regex_dict ==
            [l \in basic |-> CFG_BIBCLASSIFY_WORD_WRAP(_get_regex_pattern(l))]
    IN  \* regex_dict.update(hidden_regex_dict)
        [l \in basic \cup hidden |->
            IF l \in hidden THEN hidden_regex_dict[l] ELSE regex_dict[l]]

\* SingleKeyword(subject) with store=None: a word of a controlled vocabulary
SingleKeyword_word(subject) ==
    [ concept |-> subject,
      regex |-> _get_searchable_regex({subject}, {}),
      nostandalone |-> FALSE,
      spires |-> subject ]

\* SingleKeyword(subject, store, namespace), for each label store.objects
\* may yield first and each note and spiresLabel store.value may return
SingleKeyword_graph(st, sub) ==
    LET notes == IF objects(st, sub, "note") = {} THEN {NoneStr}
                 ELSE objects(st, sub, "note")
        spires == IF objects(st, sub, "spiresLabel") = {} THEN {Unset}
                  ELSE objects(st, sub, "spiresLabel")
    IN  { [ concept |-> first,
            regex |-> _get_searchable_regex(
                          objects(st, sub, "prefLabel") \cup objects(st, sub, "altLabel"),
                          objects(st, sub, "hiddenLabel")),
            nostandalone |-> lower(note) \in {nostandalone, nonstandalone},
            spires |-> sp ] :
          first \in objects(st, sub, "prefLabel"), note \in notes, sp \in spires }

\* every order in which the elements of a finite set can be yielded
RECURSIVE Enumerations(_)
Enumerations(S) ==
    IF S = {} THEN {<<>>}
    ELSE UNION {{<<x>> \o q : q \in Enumerations(S \ {x})} : x \in S}

\* CompositeKeyword(store, namespace, subject)
CompositeKeyword_graph(st, sub) ==
    LET spires == IF objects(st, sub, "spiresLabel") = {} THEN {Unset}
                  ELSE objects(st, sub, "spiresLabel")
    IN  { [ concept |-> c,
            compositeof |-> CompositeKeyword_compositeof(sub, yielded),
            spires |-> sp,
            regex |-> [l \in objects(st, sub, "altLabel") |->
                          CFG_BIBCLASSIFY_WORD_WRAP(_get_regex_pattern(l))] ] :
          c \in objects(st, sub, "prefLabel"),
          yielded \in Enumerations(objects(st, sub, "compositeOf")),
          sp \in spires }

\* str.strip of a line of the vocabulary file
Whitespace == {" ", "\n", "\t"}
RECURSIVE lstrip(_)
lstrip(l) == IF l # <<>> /\ l[1] \in Whitespace THEN lstrip(Tail(l)) ELSE l
RECURSIVE rstrip(_)
rstrip(l) ==
    IF l # <<>> /\ l[Len(l)] \in Whitespace THEN rstrip(SubSeq(l, 1, Len(l) - 1)) ELSE l
strip(l) == rstrip(lstrip(l))

\* the content of a source file: the lines of a controlled vocabulary, or the
\* triples of a RDF graph
IsGraph(content) == content.rdf

\* every choice of one element of F[k] for each k
Choices(F) == {g \in [DOMAIN F -> UNION {F[k] : k \in DOMAIN F}] :
                  \A k \in DOMAIN F : g[k] \in F[k]}

\* lines 194-239: the (single_keywords, composite_keywords) a compilation of
\* the content can produce
compile(content) ==
    IF ~IsGraph(content)
    THEN {[ single |-> [k \in {strip(content.lines[i]) : i \in DOMAIN content.lines}
                           |-> SingleKeyword_word(k)],
            composite |-> <<>> ]}
    ELSE LET st == content.triples
             labelled == {t[1] : t \in {x \in st : x[2] = skos("prefLabel")}}
             singles == {sub \in labelled : objects(st, sub, "compositeOf") = {}}
             composites == labelled \ singles
             \* str(subject).split("#")[-1]
             key(sub) == split_last(sub, <<"#">>)
             single_of == [k \in {key(sub) : sub \in singles} |->
                              UNION {SingleKeyword_graph(st, sub) :
                                        sub \in {x \in singles : key(x) = k}}]
             composite_of == [k \in {key(sub) : sub \in composites} |->
                                 UNION {CompositeKeyword_graph(st, sub) :
                                           sub \in {x \in composites : key(x) = k}}]
         IN  {[single |-> sk, composite |-> ck] :
                 sk \in Choices(single_of), ck \in Choices(composite_of)}

(***************************************************************************)
(* The cache: get_regular_expressions, _build_cache, _get_cache and        *)
(* _get_cache_file.                                                        *)
(*                                                                         *)
(* A path is <<directory, base name>>.  A file is [readable |-> FALSE] or  *)
(* a record with its modification time and its content (a source) or       *)
(* payload (a cache file).                                                 *)
(***************************************************************************)
None == <<"None">>
EmptyPath == <<"">>
CacheDir == "tmp/bibclassify/"

\* os.path.basename(source_file)
basename(path) == path[2]

\* os.path.join(absolute_dir, os.path.basename(source_file) + ".db")
cache_path(source_file) == <<CacheDir, basename(source_file), ".db">>

\* _get_cache_file(source_file) when _cache_location is loc: what it returns,
\* which is also what it leaves in _cache_location
_get_cache_file(loc, source_file) ==
    IF loc # None THEN loc
    ELSE IF dir_ok THEN cache_path(source_file) ELSE EmptyPath

Absent == [readable |-> FALSE]

\* os.access(path, os.R_OK) in the file system f
readable(f, path) == path # EmptyPath /\ f[path].readable

\* the exceptions _get_cache catches around cPickle.load (line 337)
CaughtByGetCache == {"UnpicklingError", "AttributeError", "DeprecationWarning"}

NoData == [none |-> TRUE]
NoFile == <<"no file">>

\* sys.exit(status)
sys_exit(status) == <<status>>

\* what a call has done so far
Started ==
    [ branch |-> "", outcome |-> "", exc |-> "", status |-> <<>>,
      data |-> NoData, messages |-> {}, read |-> NoFile, written |-> NoFile,
      removed |-> NoFile, compiled |-> FALSE ]

\* a dump that stores the single keywords under both keys
pickled_single_twice(data, now) ==
    [ pickle |-> TRUE, single |-> data.single, composite |-> data.single,
      creation_time |-> now ]

\* cPickle.dump(cached_data, filestream, 1)
pickled(data, now) ==
    [ pickle |-> TRUE, single |-> data.single, composite |-> data.composite,
      creation_time |-> now ]

\* lines 181-261.  f, loc: the files and _cache_location when it starts;
\* r: what the call has done so far.  The set of ways it can end.
_build_cache(source_file, no_cache, f, loc, r) ==
    IF ~readable(f, source_file)
    THEN \* store.parse fails, and so does open(source_file, "r")
         {[fs |-> f, loc |-> loc,
           r |-> [r EXCEPT !.outcome = "raised", !.exc = "IOError"]]}
    ELSE { IF no_cache
           THEN [fs |-> f, loc |-> loc,
                 r |-> [r EXCEPT !.outcome = "returned", !.data = data,
                                 !.compiled = TRUE]]
           ELSE LET cache_file == _get_cache_file(loc, source_file)
                IN  IF cache_file = EmptyPath \/ ~dir_ok
                    THEN \* open(cache_file, "w") raises IOError
                         [fs |-> f, loc |-> cache_file,
                          r |-> [r EXCEPT !.outcome = "returned", !.data = data,
                                          !.compiled = TRUE,
                                          !.messages = @ \cup {"ERROR: Impossible to write cache"}]]
                    ELSE [fs |-> [f EXCEPT ![cache_file] =
                                     [readable |-> TRUE, mtime |-> clock,
                                      payload |-> pickled(data, clock)]],
                          loc |-> cache_file,
                          r |-> [r EXCEPT !.outcome = "returned", !.data = data,
                                          !.compiled = TRUE, !.written = cache_file,
                                          !.messages = @ \cup {"INFO: Writing cache"}]]
           : data \in compile(f[source_file].content) }

\* lines 328-357
_get_cache(source_file, f, loc, r) ==
    LET cache_file == _get_cache_file(loc, source_file)
        payload == f[cache_file].payload
        r1 == [r EXCEPT !.read = cache_file]
    IN  IF payload.pickle
        THEN {[fs |-> f, loc |-> cache_file,
               r |-> [r1 EXCEPT !.outcome = "returned",
                                !.data = [single |-> payload.single,
                                          composite |-> payload.composite],
                                !.messages = @ \cup {"INFO: Found cache"}]]}
        ELSE IF payload.raises \in CaughtByGetCache
        THEN _build_cache(source_file, FALSE,
                          [f EXCEPT ![cache_file] = Absent], cache_file,
                          [r1 EXCEPT !.removed = cache_file,
                                     !.messages = @ \cup {"WARNING: The existing cache is not readable"}])
        ELSE {[fs |-> f, loc |-> cache_file,
               r |-> [r1 EXCEPT !.outcome = "raised", !.exc = payload.raises]]}

\* cache time >= source time: a comparison that takes an equal time as newer
newer_or_equal(cache_mtime, source_mtime) == cache_mtime >= source_mtime

\* os.path.getmtime(cache) > os.path.getmtime(taxonomy)
newer(cache_mtime, source_mtime) == cache_mtime > source_mtime

\* lines 66-102
get_regular_expressions(taxonomy, rebuild, no_cache) ==
    LET cache_file == _get_cache_file(_cache_location, taxonomy)
    IN  IF readable(fs, taxonomy)
        THEN IF rebuild \/ no_cache
             THEN _build_cache(taxonomy, no_cache, fs, _cache_location,
                               [Started EXCEPT !.branch = "_build_cache",
                                   !.messages = {"INFO: Cache generation is manually forced"}])
             ELSE IF readable(fs, cache_file)
             THEN IF newer(fs[cache_file].mtime, fs[taxonomy].mtime)
                  THEN _get_cache(taxonomy, fs, cache_file,
                                  [Started EXCEPT !.branch = "_get_cache"])
                  ELSE _build_cache(taxonomy, no_cache, fs, cache_file,
                                    [Started EXCEPT !.branch = "_build_cache",
                                        !.messages = {"WARNING: the ontology has changed"}])
             ELSE _build_cache(taxonomy, no_cache, fs, cache_file,
                               [Started EXCEPT !.branch = "_build_cache"])
        ELSE IF readable(fs, cache_file)
             THEN _get_cache(taxonomy, fs, cache_file,
                             [Started EXCEPT !.branch = "_get_cache",
                                 !.messages = {"WARNING: The ontology couldn't be located"}])
             ELSE {[fs |-> fs, loc |-> cache_file,
                    r |-> [Started EXCEPT !.branch = "sys.exit",
                              !.outcome = "exit", !.status = sys_exit(0),
                              !.messages = {"ERROR: Neither the ontology file nor a cached version"}]]}

(***************************************************************************)
(* Inputs of the validator checks.                                         *)
(***************************************************************************)
MaxTriples == 3


\* the objects a concept can have under each predicate
ObjectsOf(p) ==
    CASE p = "prefLabel" -> {<<"a">>, <<"b">>}
      [] p = "altLabel" -> {<<"a">>, <<"a", ":">>}
      [] p = "hiddenLabel" -> {<<"/", "a", "/">>, <<"/", "a">>}
      [] p = "composite" -> {CY, CX}
      [] p = "compositeOf" -> {SX, SZ}
      [] p = "note" -> {nostandalone, nonstandalone}

\* the predicates each concept of the model can have
PredicatesOf(sub) ==
    IF sub = SX
    THEN {"prefLabel", "altLabel", "hiddenLabel", "composite", "compositeOf", "note"}
    ELSE IF sub = CX
    THEN {"prefLabel", "altLabel", "compositeOf", "note"}
    ELSE {"prefLabel", "hiddenLabel", "composite", "compositeOf"}

TripleUniverse ==
    UNION {UNION {{<<sub, skos(p), o>> : o \in ObjectsOf(p)} : p \in PredicatesOf(sub)} :
              sub \in {SX, CX, CY}}
    \cup {<<HEPontology, <<"rdf:", "#", "type">>, <<"owl:", "#", "Ontology">>>>,
          <<skos("compositeOf"), <<"rdf:", "#", "type">>, <<"owl:", "#", "ObjectProperty">>>>}

(***************************************************************************)
(* Inputs of the cache checks.                                             *)
(***************************************************************************)
MaxTime == 1

SrcA == <<"kb/", "A.rdf">>
SrcB == <<"kb/", "B.txt">>
Sources == {SrcA, SrcB}
CacheFiles == {cache_path(src) : src \in Sources}

VocabularyA == [rdf |-> FALSE, lines |-> << <<"a", "y", "\n">> >>]
VocabularyB == [rdf |-> FALSE, lines |-> << <<"x", "\n">>, <<"n", "o", "n", "a", "\n">> >>]
GraphA ==
    [rdf |-> TRUE,
     triples |-> {<<SX, skos("prefLabel"), <<"a">>>>,
                  <<SX, skos("hiddenLabel"), <<"/", "a", "+", "/">>>>,
                  <<SX, skos("composite"), CY>>,
                  <<CY, skos("prefLabel"), <<"b">>>>,
                  <<CY, skos("altLabel"), <<"a", " ", "x">>>>,
                  <<CY, skos("compositeOf"), SX>>}]

\* what each source file can hold
ContentsOf(src) == IF src = SrcA THEN {VocabularyA, GraphA} ELSE {VocabularyB}

\* what cPickle.load can raise on a payload that is not a pickle of the cache
LoadErrors == {"UnpicklingError", "EOFError"}

(***************************************************************************)
(* Inputs of the compilation checks.                                       *)
(***************************************************************************)
MaxSource == 3

\* the lines a controlled vocabulary file can have
VocabularyLines ==
    {<<"a", "\n">>, <<"x", " ", "\n">>, <<"\n">>, <<" ", "\n">>}

\* the triples a RDF taxonomy can have
TaxonomyTriples ==
    {<<SX, skos("prefLabel"), <<"a">>>>,
     <<SX, skos("altLabel"), <<"/", "a", "/">>>>,
     <<SX, skos("hiddenLabel"), <<"/", "a", "/">>>>,
     <<SX, skos("hiddenLabel"), <<"/", "[", "a", "A", "]", "s", "?", "/">>>>,
     <<CX, skos("compositeOf"), SX>>,
     <<CX, skos("prefLabel"), <<"b">>>>}

(***************************************************************************)
(* The specifications.  Each one runs one part of the program; the         *)
(* variables of the other parts stay as they are.                          *)
(***************************************************************************)
vars_word == <<word, out>>
vars_composite == <<csubject, clabels, compositeof>>
vars_validator == <<store, report>>
vars_cache == <<fs, dir_ok, clock, _cache_location, result, persisted>>
vars_loader == <<source, keywords>>

NoCall == [called |-> FALSE]

IdleWord == word = <<>> /\ out = NotCalled
IdleComposite == csubject = <<>> /\ clabels = <<>> /\ compositeof = NotCalled
IdleValidator == store = {} /\ report = NoReport
EmptyFile == [rdf |-> FALSE, lines |-> <<>>]
NotCompiled == [compiled |-> FALSE]
IdleLoader == source = EmptyFile /\ keywords = NotCompiled
IdleCache ==
    /\ fs = [path \in Sources \cup CacheFiles |-> Absent]
    /\ dir_ok = TRUE
    /\ clock = 0
    /\ _cache_location = None
    /\ result = NoCall
    /\ persisted = NoData

\* one call of _convert_word on any word
InitWord ==
    /\ word \in Words
    /\ out = NotCalled
    /\ IdleComposite /\ IdleValidator /\ IdleCache /\ IdleLoader

ConvertWord ==
    /\ out = NotCalled
    /\ out' = _convert_word(word)
    /\ UNCHANGED <<word, vars_composite, vars_validator, vars_cache, vars_loader>>

NextWord == ConvertWord

SpecWord == InitWord /\ [][NextWord]_vars

\* one construction of a CompositeKeyword
InitComposite ==
    /\ csubject \in CompositeSubjects
    /\ clabels \in LabelSeqs
    /\ compositeof = NotCalled
    /\ IdleWord /\ IdleValidator /\ IdleCache /\ IdleLoader

CompositeInit ==
    /\ compositeof = NotCalled
    /\ compositeof' = CompositeKeyword_compositeof(csubject, clabels)
    /\ UNCHANGED <<csubject, clabels, vars_word, vars_validator, vars_cache, vars_loader>>

NextComposite == CompositeInit

SpecComposite == InitComposite /\ [][NextComposite]_vars

\* a taxonomy file is written, then check_taxonomy runs on it once
InitValidator ==
    /\ store = {}
    /\ report = NoReport
    /\ IdleWord /\ IdleComposite /\ IdleCache /\ IdleLoader

\* the taxonomy file gets one more triple
AddTriple ==
    /\ report = NoReport
    /\ store # NotRdf
    /\ Cardinality(store) < MaxTriples
    /\ \E t \in TripleUniverse \ store : store' = store \cup {t}
    /\ UNCHANGED <<report, vars_word, vars_composite, vars_cache, vars_loader>>

\* the taxonomy file is not RDF at all
NotRdfFile ==
    /\ report = NoReport
    /\ store = {}
    /\ store' = NotRdf
    /\ UNCHANGED <<report, vars_word, vars_composite, vars_cache, vars_loader>>

CheckTaxonomy ==
    /\ report = NoReport
    /\ IF store = NotRdf
       THEN report' = check_taxonomy_not_rdf
       ELSE \E kept \in kept_choices(store) : report' = check_taxonomy(store, kept)
    /\ UNCHANGED <<store, vars_word, vars_composite, vars_cache, vars_loader>>

NextValidator == AddTriple \/ NotRdfFile \/ CheckTaxonomy

SpecValidator == InitValidator /\ [][NextValidator]_vars

\* processes that call get_regular_expressions, and the files changing
\* between the calls
InitCache ==
    /\ fs = [path \in Sources \cup CacheFiles |-> Absent]
    /\ dir_ok \in BOOLEAN
    /\ clock = 0
    /\ _cache_location = None
    /\ result = NoCall
    /\ persisted = NoData
    /\ IdleWord /\ IdleComposite /\ IdleValidator /\ IdleLoader

others_cache == <<vars_word, vars_composite, vars_validator, vars_loader>>

\* the source file is written (created, edited or touched)
WriteSource ==
    /\ result = NoCall
    /\ persisted' = NoData
    /\ \E src \in Sources :
        \E content \in ContentsOf(src) :
          fs' = [fs EXCEPT ![src] = [readable |-> TRUE, mtime |-> clock,
                                     content |-> content]]
    /\ UNCHANGED <<result, dir_ok, clock, _cache_location, others_cache>>

\* the source file is removed or made unreadable
RemoveSource ==
    /\ result = NoCall
    /\ persisted' = NoData
    /\ \E src \in Sources :
          /\ fs[src].readable
          /\ fs' = [fs EXCEPT ![src] = Absent]
    /\ UNCHANGED <<result, dir_ok, clock, _cache_location, others_cache>>

\* a cache file is damaged or replaced by something cPickle cannot load
CorruptCache ==
    /\ result = NoCall
    /\ persisted' = NoData
    /\ \E cache_file \in CacheFiles, exc \in LoadErrors :
          /\ fs[cache_file].readable
          /\ fs' = [fs EXCEPT ![cache_file] =
                       [readable |-> TRUE, mtime |-> clock,
                        payload |-> [pickle |-> FALSE, raises |-> exc]]]
    /\ UNCHANGED <<result, dir_ok, clock, _cache_location, others_cache>>

\* time passes
Tick ==
    /\ result = NoCall
    /\ UNCHANGED persisted
    /\ clock < MaxTime
    /\ clock' = clock + 1
    /\ UNCHANGED <<result, fs, dir_ok, _cache_location, others_cache>>

\* the process ends and another one imports the module
Restart ==
    /\ result = NoCall
    /\ persisted' = NoData
    /\ _cache_location # None
    /\ _cache_location' = None
    /\ UNCHANGED <<result, fs, dir_ok, clock, others_cache>>

GetRegularExpressions ==
    /\ result = NoCall
    /\ \E taxonomy \in Sources, rebuild \in BOOLEAN, no_cache \in BOOLEAN :
          \E end \in get_regular_expressions(taxonomy, rebuild, no_cache) :
              /\ fs' = end.fs
              /\ _cache_location' = end.loc
              /\ result' = [called |-> TRUE, taxonomy |-> taxonomy,
                            rebuild |-> rebuild, no_cache |-> no_cache,
                            before |-> [fs |-> fs, loc |-> _cache_location,
                                        persisted |-> persisted],
                            r |-> end.r]
              /\ persisted' = IF end.r.written # NoFile
                               THEN [taxonomy |-> taxonomy, data |-> end.r.data]
                               ELSE NoData
    /\ UNCHANGED <<dir_ok, clock, others_cache>>

\* the caller goes on with what the call gave it
Continue ==
    /\ result # NoCall
    /\ result' = NoCall
    /\ UNCHANGED <<fs, dir_ok, clock, _cache_location, persisted, others_cache>>

NextCache ==
    \/ WriteSource \/ RemoveSource \/ CorruptCache
    \/ Tick \/ Restart \/ GetRegularExpressions \/ Continue

SpecCache == InitCache /\ [][NextCache]_vars

\* a source file is written and then compiled
InitLoader ==
    /\ source = EmptyFile
    /\ keywords = NotCompiled
    /\ IdleWord /\ IdleComposite /\ IdleValidator /\ IdleCache

others_loader == <<vars_word, vars_composite, vars_validator, vars_cache>>

\* the controlled vocabulary gets one more line
WriteLine ==
    /\ keywords = NotCompiled
    /\ ~IsGraph(source)
    /\ Len(source.lines) < MaxSource
    /\ \E line \in VocabularyLines :
          source' = [rdf |-> FALSE, lines |-> Append(source.lines, line)]
    /\ UNCHANGED <<keywords, others_loader>>

\* the RDF taxonomy gets one more triple
WriteTriple ==
    /\ keywords = NotCompiled
    /\ IF IsGraph(source)
       THEN /\ Cardinality(source.triples) < MaxSource
            /\ \E t \in TaxonomyTriples \ source.triples :
                  source' = [rdf |-> TRUE, triples |-> source.triples \cup {t}]
       ELSE /\ source = EmptyFile
            /\ \E t \in TaxonomyTriples :
                  source' = [rdf |-> TRUE, triples |-> {t}]
    /\ UNCHANGED <<keywords, others_loader>>

\* _build_cache(source_file, no_cache=True)
BuildCache ==
    /\ keywords = NotCompiled
    /\ keywords' \in compile(source)
    /\ UNCHANGED <<source, others_loader>>

NextLoader == WriteLine \/ WriteTriple \/ BuildCache

SpecLoader == InitLoader /\ [][NextLoader]_vars

(***************************************************************************)
(* Validator properties.                                                   *)
(***************************************************************************)
Reported == report.called /\ report.parsed

\* the objects the graph gives a subject under a predicate
ObjectsIn(sub, p) == {t \in store : t[1] = sub /\ t[2] = skos(p)}

FindingsAgree(sub) ==
    LET n == local_name(sub)
    IN  /\ n \in report.errors.multiple_prefLabels
            <=> Cardinality(ObjectsIn(sub, "prefLabel")) >= 2
        /\ n \in report.errors.no_prefLabel
            <=> ObjectsIn(sub, "prefLabel") = {}
        /\ n \in report.errors.both_composites
            <=> (ObjectsIn(sub, "composite") # {} /\ ObjectsIn(sub, "compositeOf") # {})

\* C8 as stated: for every graph and every subject of it, the subject is in
\* the 'multiple prefLabels' finding exactly when it has two or more preferred
\* labels, in 'no prefLabel' exactly when it has none, in 'both composites'
\* exactly when it has both relations.
C8_EverySubject ==
    Reported => \A sub \in store_subjects(store) : FindingsAgree(sub)

\* C8 amended: the same, for every subject check_taxonomy keeps in its subject
\* dictionary: not the ontology root, not 'compositeOf', and of the subjects
\* that share an identifier only the one visited first.
C8_EveryKeptSubject ==
    Reported => \A n \in DOMAIN report.kept : FindingsAgree(report.kept[n])

\* C8 witness: a report with a subject of two preferred labels in 'multiple
\* prefLabels' and a subject of none in 'no prefLabel'.
C8_Witness ==
    /\ Reported
    /\ \E n \in DOMAIN report.kept :
          /\ Cardinality(ObjectsIn(report.kept[n], "prefLabel")) >= 2
          /\ n \in report.errors.multiple_prefLabels
    /\ \E n \in DOMAIN report.kept :
          /\ ObjectsIn(report.kept[n], "prefLabel") = {}
          /\ n \in report.errors.no_prefLabel

\* every identifier the error section prints
ErrorNames(e) ==
    e.no_prefLabel \cup e.multiple_prefLabels \cup e.both_composites
    \cup {x[1] : x \in e.bad_hidden_labels} \cup {x[1] : x \in e.bad_alt_labels}
    \cup e.both_skw_and_ckw
    \cup UNION {{x[1], x[2]} : x \in e.composite_problem1 \cup e.composite_problem2
                    \cup e.composite_problem3 \cup e.composite_problem4
                    \cup e.composite_problem5 \cup e.composite_problem6}

\* C9: every subject that has neither the composite nor the compositeOf
\* relation appears in the error section of the report.
C9_LonelyReported ==
    Reported =>
        \A n \in DOMAIN report.kept :
            (ObjectsIn(report.kept[n], "composite") = {}
             /\ ObjectsIn(report.kept[n], "compositeOf") = {})
                => n \in ErrorNames(report.errors)


(***************************************************************************)
(* Cache properties.  They are about the state a call of                   *)
(* get_regular_expressions leaves, which records the files and             *)
(* _cache_location the call found.                                         *)
(***************************************************************************)
Called == result.called

\* the cache file the call consulted, and the one named after its source
Consulted == _get_cache_file(result.before.loc, result.taxonomy)
OwnCache == IF dir_ok THEN cache_path(result.taxonomy) ELSE EmptyPath

SourceReadable == readable(result.before.fs, result.taxonomy)
CacheReadable == readable(result.before.fs, Consulted)
CacheNewer ==
    result.before.fs[Consulted].mtime > result.before.fs[result.taxonomy].mtime
Forced == result.rebuild \/ result.no_cache

\* the rows of the decision table
LoadFromCache ==
    /\ result.r.branch = "_get_cache"
    /\ result.r.read = Consulted
    /\ result.before.fs[Consulted].payload.pickle =>
          /\ ~result.r.compiled
          /\ result.r.outcome = "returned"
          /\ result.r.data.single = result.before.fs[Consulted].payload.single
          /\ result.r.data.composite = result.before.fs[Consulted].payload.composite
Recompile ==
    /\ result.r.branch = "_build_cache"
    /\ result.r.read = NoFile
    /\ result.r.compiled
    /\ result.r.outcome = "returned"
    /\ result.r.data \in compile(result.before.fs[result.taxonomy].content)
TerminateWithoutData ==
    /\ result.r.branch = "sys.exit"
    /\ result.r.outcome = "exit"
    /\ result.r.data = NoData
    /\ ~result.r.compiled /\ result.r.read = NoFile

\* C1: a call chooses its action by the decision table over the source's and
\* the consulted cache file's readability, the two flags and the two
\* modification times: unreadable source and readable cache -> the cached
\* data; neither readable -> termination with no data; readable source and a
\* flag -> recompilation; readable source, readable cache strictly newer than
\* the source -> the cached data without recompiling; readable source,
\* readable cache not newer -> recompilation; readable source and unreadable
\* cache -> compilation.
C1_DecisionTable ==
    Called =>
        /\ (~SourceReadable /\ CacheReadable) => LoadFromCache
        /\ (~SourceReadable /\ ~CacheReadable) => TerminateWithoutData
        /\ (SourceReadable /\ Forced) => Recompile
        /\ (SourceReadable /\ ~Forced /\ CacheReadable /\ CacheNewer) => LoadFromCache
        /\ (SourceReadable /\ ~Forced /\ CacheReadable /\ ~CacheNewer) => Recompile
        /\ (SourceReadable /\ ~Forced /\ ~CacheReadable) => Recompile

\* the source's modification time is not before the cache's and the call,
\* with no flag, has recompiled
C1_Witness ==
    /\ Called /\ SourceReadable /\ ~Forced /\ CacheReadable
    /\ result.before.fs[Consulted].payload.pickle
    /\ result.before.fs[result.taxonomy].mtime >= result.before.fs[Consulted].mtime
    /\ result.r.compiled

\* the keyword sets a source can compile to
CompiledFrom(src) == UNION {compile(content) : content \in ContentsOf(src)}

\* C2: the cache file a call reads or writes for a source is the one named
\* after that source's base name, and the keyword set the call returns is one
\* compiled from that source.
C2_CacheKeyedBySource ==
    Called =>
        /\ result.r.read \in {NoFile, OwnCache}
        /\ result.r.written \in {NoFile, OwnCache}
        /\ result.r.outcome = "returned" => result.r.data \in CompiledFrom(result.taxonomy)

\* same identifiers and same pattern sources
SameKeywords(m1, m2) ==
    /\ DOMAIN m1 = DOMAIN m2
    /\ \A id \in DOMAIN m1 : m1[id].regex = m2[id].regex

\* the call follows, in the same process and with the source untouched, a
\* compilation of the same source that wrote the cache; it loads the cache
LoadsAfterSave ==
    /\ Called
    /\ result.before.persisted # NoData
    /\ result.before.persisted.taxonomy = result.taxonomy
    /\ result.r.branch = "_get_cache"

C4_FatalExitFails ==
    (Called /\ ~SourceReadable /\ ~CacheReadable) =>
        /\ "ERROR: Neither the ontology file nor a cached version" \in result.r.messages
        /\ result.r.outcome = "exit"
        /\ result.r.data = NoData
        /\ result.r.status # sys_exit(0)

\* the call has read a cache file whose payload cannot be deserialized
ReadBadCache ==
    /\ Called
    /\ result.r.read # NoFile
    /\ ~result.before.fs[result.r.read].payload.pickle

\* C5: a call that reads a cache file whose payload cannot be deserialized
\* deletes the file and returns the keyword set compiled from the source; it
\* does not abort.
C5_BadCacheRecovered ==
    ReadBadCache =>
        /\ result.r.removed = result.r.read
        /\ result.r.outcome = "returned"
        /\ result.r.compiled
        /\ SourceReadable
        /\ result.r.data \in compile(result.before.fs[result.taxonomy].content)


(***************************************************************************)
(* Compilation properties.  They are about the maps _build_cache returned  *)
(* for the source.                                                         *)
(***************************************************************************)
Compiled == keywords # NotCompiled

\* C11: every key of the compiled single-keyword map is a non-empty
\* identifier, whatever the source: a controlled vocabulary, blank and
\* whitespace-only lines included, or a graph.
C11_NonEmptyIdentifiers ==
    Compiled => \A id \in DOMAIN keywords.single : id # <<>>

\* the subjects of the source graph that have a composed-of relation
CompositeSubjectsOf(st) == {t[1] : t \in {x \in st : x[2] = skos("compositeOf")}}

\* C12: compiling a graph registers every subject that has a composed-of
\* relation in the composite-keyword map under its identifier, a composite
\* without preferred label included.
C12_EveryCompositeRegistered ==
    (Compiled /\ IsGraph(source)) =>
        \A sub \in CompositeSubjectsOf(source.triples) :
            split_last(sub, <<"#">>) \in DOMAIN keywords.composite

\* the single keyword compiled for a subject of the source graph
Registered(sub) == split_last(sub, <<"#">>) \in DOMAIN keywords.single
KeywordOf(sub) == keywords.single[split_last(sub, <<"#">>)]
BasicLabels(sub) ==
    objects(source.triples, sub, "prefLabel") \cup objects(source.triples, sub, "altLabel")
HiddenLabels(sub) == objects(source.triples, sub, "hiddenLabel")
SingleSubjects == {sub \in {t[1] : t \in source.triples} : Registered(sub)}

C14_BypassLeavesCache ==
    (Called /\ result.no_cache) =>
        \A cache_file \in CacheFiles : fs[cache_file] = result.before.fs[cache_file]

\* SingleKeyword construction sets the no-standalone flag for a subject whose
\* note is v
SetsNoStandalone(v) ==
    \A kw \in SingleKeyword_graph({<<SX, skos("prefLabel"), <<"a">>>>,
                                   <<SX, skos("note"), v>>}, SX) :
        kw.nostandalone

\* C15: no note value for which SingleKeyword construction sets the
\* no-standalone flag is listed by check_taxonomy among the bad notes.
C15_NotesAgree ==
    (report.called /\ report.parsed) =>
        \A bad \in report.warnings.bad_notes : ~SetsNoStandalone(bad[2])

====
